---------------------------- MODULE Spec2Model ----------------------------
(***************************************************************************)
(* pingo: a host-side plugin supervisor (plugin.go), the line framing it   *)
(* parses (utils.go, errors.go) and the child runtime's connection         *)
(* authentication (server side).                                           *)
(*                                                                         *)
(* Go strings are TLA+ strings: Len, SubSeq and \o act on them, so every   *)
(* parser below slices the same bytes the Go code slices.  A Go slice      *)
(* expression s[a:b] with an index out of range panics; the parsers return *)
(* a record whose "panic" field says so.                                   *)
(***************************************************************************)
EXTENDS Naturals, Integers, Sequences, FiniteSets, TLC

(***************************************************************************)
(* Go string primitives.                                                   *)
(***************************************************************************)

\* s[a:b] of Go, for 0 <= a <= b <= len(s)
Slice(s, a, b) == SubSeq(s, a + 1, b)

\* s[a:] of Go
SliceFrom(s, a) == SubSeq(s, a + 1, Len(s))

\* strings.HasPrefix
HasPrefix(s, p) == Len(s) >= Len(p) /\ Slice(s, 0, Len(p)) = p

\* strings.Index: the 0-based offset of the first occurrence of sep, or -1
Index(s, sep) ==
  LET hits == {i \in 0..(Len(s) - Len(sep)) : Slice(s, i, i + Len(sep)) = sep}
  IN  IF hits = {} THEN -1 ELSE CHOOSE i \in hits : \A j \in hits : i <= j

\* strings.IndexByte
IndexByte(s, ch) == Index(s, ch)

\* strings.SplitN(s, sep, 2): one part when sep does not occur, else two
SplitN2(s, sep) ==
  LET i == Index(s, sep)
  IN  IF i < 0 THEN <<s>>
      ELSE <<Slice(s, 0, i), SliceFrom(s, i + Len(sep))>>

\* strings.Split(s, sep) for a non-empty sep: always at least one part
RECURSIVE Split(_, _)
Split(s, sep) ==
  LET i == Index(s, sep)
  IN  IF i < 0 THEN <<s>>
      ELSE <<Slice(s, 0, i)>> \o Split(SliceFrom(s, i + Len(sep)), sep)

(***************************************************************************)
(* utils.go: the framing of status lines.                                  *)
(***************************************************************************)

NoKey == [panic |-> FALSE, key |-> "", val |-> ""]

Panicked == [panic |-> TRUE, key |-> "", val |-> ""]

\* meta.output: the line printed for (key, val) under prefix h
output(h, key, val) == h \o ": " \o key \o ": " \o val

\* meta.parse that skips one byte after the key, not two
parseSkipOne(h, line) ==
  IF line = "" THEN NoKey
  ELSE IF Len(line) < Len(h) THEN NoKey
  ELSE IF Slice(line, 0, Len(h)) # h THEN NoKey
  ELSE IF Len(h) + 2 > Len(line) THEN Panicked
  ELSE LET rest == SliceFrom(line, Len(h) + 2)
           end  == IndexByte(rest, ":")
       IN  IF end < 0 THEN NoKey
           ELSE [panic |-> FALSE,
                 key   |-> Slice(rest, 0, end),
                 val   |-> SliceFrom(rest, end + 1)]

\* meta.parse: (key, val) of a line, or a slice-bounds panic
parse(h, line) ==
  IF line = "" THEN NoKey
  ELSE IF Len(line) < Len(h) THEN NoKey
  ELSE IF Slice(line, 0, Len(h)) # h THEN NoKey
  ELSE IF Len(h) + 2 > Len(line) THEN Panicked
  ELSE LET rest == SliceFrom(line, Len(h) + 2)
           end  == IndexByte(rest, ":")
       IN  IF end < 0 THEN NoKey
           ELSE IF end + 2 > Len(rest) THEN Panicked
           ELSE [panic |-> FALSE,
                 key   |-> Slice(rest, 0, end),
                 val   |-> SliceFrom(rest, end + 2)]

(***************************************************************************)
(* errors.go: error values.  An error is a record; "code" is the branch of *)
(* parseError's switch (or the variable of plugin.go) that built it.       *)
(***************************************************************************)

Nil == [code |-> "nil", msg |-> ""]

Err(code, msg) == [code |-> code, msg |-> msg]

errorCodeConnFailed == "err-connection-failed"

errorCodeHttpServe == "err-http-serve"

errInvalidMessage == Err("InvalidMessage", "Invalid ready message")

errRegistrationTimeout == Err("RegistrationTimeout", "Registration timed out")

\* parseError: nil for an empty first part; parts[1] is out of range, and
\* the caller panics, when the line holds no ": "
parseError(line) ==
  LET parts == SplitN2(line, ": ")
  IN  IF parts[1] = "" THEN [panic |-> FALSE, err |-> Nil]
      ELSE IF Len(parts) < 2 THEN [panic |-> TRUE, err |-> Nil]
      ELSE [panic |-> FALSE,
            err |-> CASE parts[1] = errorCodeConnFailed -> Err("ConnectionFailed", parts[2])
                      [] parts[1] = errorCodeHttpServe  -> Err("HttpServe", parts[2])
                      [] OTHER                          -> Err("error", parts[2])]

(***************************************************************************)
(* plugin.go: the supervisor's state (ctrl) and its methods.               *)
(***************************************************************************)

internalObject == "PingoRpc"

\* *rpc.Client: nil, or the connection dialed to addr that carried secret
NilClient == [live |-> FALSE, addr |-> "", secret |-> ""]

\* client.authenticate: the header block written on the new connection
authenticate(secret) == "Auth-Token: " \o secret \o "\n\n"

\* dialAuthRpc with the error of the header write dropped
dialAuthRpcUnchecked(secret, network, address, net) ==
  IF net = "refused" \/ address = ""
    THEN [client |-> NilClient, err |-> Err("error", "dial " \o network)]
  ELSE [client |-> [live |-> TRUE, addr |-> address, secret |-> secret], err |-> Nil]

\* dialAuthRpc: net is what the network does with the dial and the header
\* write ("ok", "refused", "writefail"); an empty address cannot be dialed
dialAuthRpc(secret, network, address, net) ==
  IF net = "refused" \/ address = ""
    THEN [client |-> NilClient, err |-> Err("error", "dial " \o network)]
  ELSE IF net = "writefail"
    THEN [client |-> NilClient, err |-> Err("error", "write " \o network)]
  ELSE [client |-> [live |-> TRUE, addr |-> address, secret |-> secret], err |-> Nil]

\* newCtrl: the timeout is armed, the line and wait channels exist, the
\* request channel aliases are nil
newCtrl ==
  [objs      |-> << >>,
   proto     |-> "",
   addr      |-> "",
   secret    |-> "",
   err       |-> Nil,
   connCh    |-> FALSE,
   objsCh    |-> FALSE,
   timeoutCh |-> TRUE,
   waitCh    |-> TRUE,
   linesCh   |-> TRUE,
   over      |-> 0,
   proc      |-> FALSE,
   client    |-> NilClient]

isFatal(c) == c.err # Nil

close(c) == [c EXCEPT !.connCh = FALSE, !.objsCh = FALSE]

open(c) == [c EXCEPT !.connCh = TRUE, !.objsCh = TRUE]

\* ctrl.kill: a no-op without a process handle; else the handle is dropped
kill(c) == IF ~c.proc THEN c ELSE [c EXCEPT !.proc = FALSE]

\* what proc.Kill() does to the child: a running child gets the signal
Signal(ch) == IF ch = "running" THEN "killed" ELSE ch

\* the child after ctrl.kill on c
killed(c, ch) == IF c.proc THEN Signal(ch) ELSE ch

\* the calls of proc.Kill() one ctrl.kill on c makes
sent(c) == IF c.proc THEN 1 ELSE 0

fatal(c, err) == kill(open([c EXCEPT !.err = err]))

\* ctrl.parseReady: the fields it assigned and the error it returned
parseReady(c, str) ==
  IF ~HasPrefix(str, "proto=") THEN [c |-> c, err |-> errInvalidMessage]
  ELSE LET str1 == SliceFrom(str, 6)
           s    == IndexByte(str1, " ")
       IN  IF s < 0 THEN [c |-> c, err |-> errInvalidMessage]
           ELSE LET proto == Slice(str1, 0, s)
                IN  IF proto # "unix" /\ proto # "tcp"
                      THEN [c |-> c, err |-> errInvalidMessage]
                    ELSE LET c1   == [c EXCEPT !.proto = proto]
                             str2 == SliceFrom(str1, s + 1)
                         IN  IF ~HasPrefix(str2, "addr=")
                               THEN [c |-> c1, err |-> errInvalidMessage]
                             ELSE [c   |-> [c1 EXCEPT !.addr = SliceFrom(str2, 5)],
                                   err |-> Nil]

\* ctrl.ready that leaves the registration timeout armed
readyArmed(c, val, net) ==
  LET pr == parseReady(c, val)
  IN  IF pr.err # Nil THEN [c |-> fatal(pr.c, pr.err), ok |-> FALSE]
      ELSE LET d  == dialAuthRpc(pr.c.secret, pr.c.proto, pr.c.addr, net)
               c1 == [pr.c EXCEPT !.client = d.client]
           IN  IF d.err # Nil THEN [c |-> fatal(c1, d.err), ok |-> FALSE]
               ELSE [c |-> c1, ok |-> TRUE]

\* ctrl.ready: the new ctrl and whether the handshake succeeded
ready(c, val, net) ==
  LET pr == parseReady(c, val)
  IN  IF pr.err # Nil THEN [c |-> fatal(pr.c, pr.err), ok |-> FALSE]
      ELSE LET d  == dialAuthRpc(pr.c.secret, pr.c.proto, pr.c.addr, net)
               c1 == [pr.c EXCEPT !.client = d.client]
           IN  IF d.err # Nil THEN [c |-> fatal(c1, d.err), ok |-> FALSE]
               ELSE [c |-> [c1 EXCEPT !.timeoutCh = FALSE], ok |-> TRUE]

\* the loop of ctrl.objects from index i (0-based), j names copied so far:
\* list[j] = objs[i] panics when j is out of range
RECURSIVE objectsLoop(_, _, _, _)
objectsLoop(objs, list, i, j) ==
  IF i >= Len(objs) THEN [panic |-> FALSE, list |-> list]
  ELSE IF objs[i + 1] = internalObject THEN objectsLoop(objs, list, i + 1, j)
  ELSE IF j >= Len(list) THEN [panic |-> TRUE, list |-> << >>]
  ELSE objectsLoop(objs, [list EXCEPT ![j + 1] = objs[i + 1]], i + 1, j + 1)

\* ctrl.objects that drops the last name instead of the internal one
objectsDropLast(objs) ==
  IF Len(objs) - 1 < 0 THEN [panic |-> TRUE, list |-> << >>]
  ELSE [panic |-> FALSE, list |-> SubSeq(objs, 1, Len(objs) - 1)]

\* ctrl.objects: make([]string, len(objs)-1) panics for a nil list
objects(objs) ==
  IF Len(objs) - 1 < 0 THEN [panic |-> TRUE, list |-> << >>]
  ELSE objectsLoop(objs, [k \in 1..(Len(objs) - 1) |-> ""], 0, 0)

(***************************************************************************)
(* Bounds and inputs of the supervisor model.                              *)
(***************************************************************************)

\* caller threads issuing Call/Objects
NCallers == 2

\* output lines the supervisor reads from one child
MaxLines == 2

Callers == 1..NCallers

\* the thread that calls Stop; its waiter is named by this id in ctrl.over
Stopper == NCallers + 1

\* p.meta: "pingo" and five random characters
Prefix == "pingoAb3_x"

\* the child runtime's auth token (randstr(64) in the code)
ChildSecret == "s3cr3t"

\* rpcServer.authConn
authConn(token) == token # "" /\ token = ChildSecret

DefaultTimeout == 2

TempDir == "/tmp"

\* the handshake of the child runtime
HandshakeLines ==
  { output(Prefix, "objects", "PingoRpc, Greeter"),
    output(Prefix, "auth-token", ChildSecret),
    output(Prefix, "ready", "proto=tcp addr=127.0.0.1:1024") }

\* what a child may print on its standard streams
Lines ==
  HandshakeLines \cup
  { output(Prefix, "objects", "Greeter, PingoRpc, PingoRpc"),
    output(Prefix, "objects", "Greeter"),
    output(Prefix, "ready", "proto=sctp addr=x"),
    output(Prefix, "fatal", errorCodeConnFailed \o ": no port"),
    output(Prefix, "fatal", "boom"),
    output(Prefix, "error", errorCodeHttpServe \o ": accept"),
    "hello" }

NetOutcomes == {"ok", "refused", "writefail"}

\* meta.parse of every line a child may print
parsed == [l \in Lines |-> parse(Prefix, l)]

\* key, val := p.meta.parse(line)
parsedLine(l) == IF l \in Lines THEN parsed[l] ELSE parse(Prefix, l)

\* only a ready line makes the loop dial
DialOutcomes(l) == IF parsedLine(l).key = "ready" THEN NetOutcomes ELSE {"ok"}

(***************************************************************************)
(* State.                                                                  *)
(*   p        the Plugin handle's fields                                   *)
(*   sv       where the event-loop task (Plugin.run) is                    *)
(*   c        the ctrl of that task                                        *)
(*   child    the subprocess                                               *)
(*   deadline the shutdown deadline task of the kill-request branch        *)
(*   nlines   lines read from the child so far                             *)
(*   call     per caller thread: the request it is blocked sending, or     *)
(*            "ret" once its waiter is closed                              *)
(*   last     the answered envelope its caller is returning with           *)
(*   stop     where the thread in Stop is                                  *)
(*   lastSet  how the latest configuration setter call ended               *)
(*   served, timedOut, reaped: history of the run                          *)
(*   kills    kill signals sent to the child's pid so far                  *)
(*   graceful the child exited with status 0 on PingoRpc.Exit, in time     *)
(*   fr       a line under meta.parse and what parse made of it            *)
(*   srv      the child runtime: its process and its connections           *)
(*   rd       a ready value under ctrl.ready and what ready made of it     *)
(*   kid      the child runtime's Run: its flags, its bind loop, the lines *)
(*            it has printed                                               *)
(*   tasks    the event-loop tasks the Start calls on one handle spawned   *)
(*   stops    the Stop calls racing on one handle: where each is, and how  *)
(*            often its waiter was closed                                  *)
(***************************************************************************)
VARIABLES p, sv, c, child, deadline, nlines, call, last, stop,
          lastSet, served, timedOut, reaped, kills, graceful, fr, srv,
          rd, kid, tasks, stops

vars == <<p, sv, c, child, deadline, nlines, call, last, stop,
          lastSet, served, timedOut, reaped, kills, graceful, fr, srv,
          rd, kid, tasks, stops>>

\* NewPlugin
NewPlugin ==
  [running     |-> FALSE,
   initTimeout |-> DefaultTimeout,
   exitTimeout |-> DefaultTimeout,
   handler     |-> "default",
   unixdir     |-> ""]

\* no envelope answered yet
NoEnvelope ==
  [op |-> "none", err |-> Nil, client |-> NilClient,
   list |-> << >>, adv |-> << >>, tmo |-> FALSE]

\* no line parsed
NoFrame == [h |-> "", line |-> "", pc |-> "off", res |-> NoKey, to |-> ""]

\* no child runtime
NoServer == [up |-> FALSE, conns |-> << >>]

\* no ready value under ctrl.ready
NoReady == [pc |-> "off"]

\* no Run of the child runtime
NoKid == [pc |-> "off"]

\* the handle, the line parser and the child runtime's views at rest
IdleParse == fr = NoFrame
IdleServe == srv = NoServer
IdleReady == rd = NoReady
IdleKid == kid = NoKid
IdleTasks == tasks = << >>
IdleStops == stops = << >>

\* the handle right after NewPlugin, no caller yet
InitHost ==
  /\ p = NewPlugin
  /\ sv = "none"
  /\ c = newCtrl
  /\ child = "none"
  /\ deadline = "off"
  /\ nlines = 0
  /\ call = [i \in Callers |-> "idle"]
  /\ last = NoEnvelope
  /\ stop = "idle"
  /\ lastSet = "none"
  /\ served = FALSE
  /\ timedOut = FALSE
  /\ reaped = FALSE
  /\ kills = 0
  /\ graceful = FALSE

Init == InitHost /\ IdleParse /\ IdleServe /\ IdleReady /\ IdleKid /\ IdleTasks /\ IdleStops

\* the views of the parts taken alone
aux == <<fr, srv, rd, kid, tasks, stops>>

\* what the signals did
sigs == <<kills, graceful>>

hist == <<served, timedOut, reaped, sigs, aux>>

\* the supervisor and its callers
host == <<p, sv, c, child, deadline, nlines, call, last, stop,
          lastSet, served, timedOut, reaped, sigs>>

\* a panic of the event-loop task ends the host process
Alive == sv # "panic"

\* no caller is between its closed waiter and its return
Quiet == \A i \in Callers : call[i] # "ret"

\* a step other than a caller's return can be taken
Sched == Alive /\ Quiet

(***************************************************************************)
(* The public handle.                                                      *)
(***************************************************************************)

\* how a setter called on a running handle ends
SetterPanic == IF stop = "returned" THEN "panicAfterStop" ELSE "panic"

SetErrorHandler(h) ==
  /\ Sched
  /\ IF p.running
       THEN p' = p /\ lastSet' = SetterPanic
       ELSE p' = [p EXCEPT !.handler = h] /\ lastSet' = "accepted"
  /\ UNCHANGED <<sv, c, child, deadline, nlines, call, last, stop, hist>>

SetTimeout(t) ==
  /\ Sched
  /\ IF p.running
       THEN p' = p /\ lastSet' = SetterPanic
       ELSE /\ p' = IF t = 0 THEN p
                    ELSE [p EXCEPT !.initTimeout = t, !.exitTimeout = t]
            /\ lastSet' = "accepted"
  /\ UNCHANGED <<sv, c, child, deadline, nlines, call, last, stop, hist>>

SetSocketDirectory(dir) ==
  /\ Sched
  /\ IF p.running
       THEN p' = p /\ lastSet' = SetterPanic
       ELSE p' = [p EXCEPT !.unixdir = dir] /\ lastSet' = "accepted"
  /\ UNCHANGED <<sv, c, child, deadline, nlines, call, last, stop, hist>>

\* Start: sets running and spawns the event-loop task.  The driver calls it
\* once per handle.
Start ==
  /\ Sched
  /\ sv = "none"
  /\ p' = [p EXCEPT !.running = TRUE]
  /\ sv' = "start"
  /\ UNCHANGED <<c, child, deadline, nlines, call, last, stop, lastSet, hist>>

\* Call / Objects up to the send on the request channel
Request(i, op) ==
  /\ Sched
  /\ call[i] = "idle"
  /\ call' = [call EXCEPT ![i] = op]
  /\ UNCHANGED <<p, sv, c, child, deadline, nlines, last, stop, lastSet, hist>>

\* Call / Objects from the closed waiter to the return: the caller reads its
\* envelope.  The step is local to the caller, so it is taken at once.
Return(i) ==
  /\ Alive
  /\ call[i] = "ret"
  /\ call' = [call EXCEPT ![i] = "idle"]
  /\ last' = NoEnvelope
  /\ UNCHANGED <<p, sv, c, child, deadline, nlines, stop, lastSet, hist>>

\* Stop up to the send of its waiter on killCh
StopCall ==
  /\ Sched
  /\ p.running
  /\ stop = "idle"
  /\ stop' = "kill"
  /\ UNCHANGED <<p, sv, c, child, deadline, nlines, call, last, lastSet, hist>>

(***************************************************************************)
(* Plugin.run: the event-loop task.                                        *)
(***************************************************************************)

\* run up to the select loop: the default socket directory, newCtrl, the
\* wait task, the pid (0 when the child could not be spawned)
runInit(spawned) ==
  /\ Sched
  /\ sv = "start"
  /\ p' = [p EXCEPT !.unixdir = IF @ = "" THEN TempDir ELSE @]
  /\ c' = [newCtrl EXCEPT !.proc = spawned]
  /\ child' = IF spawned THEN "running" ELSE "nospawn"
  /\ sv' = "loop"
  /\ UNCHANGED <<deadline, nlines, call, last, stop, lastSet, hist>>

\* case <-c.timeoutCh.  time.After delivers one value: after it the channel
\* never fires again, as a nil one.
Timeout ==
  /\ Sched
  /\ sv = "loop"
  /\ c.timeoutCh
  /\ c' = fatal([c EXCEPT !.timeoutCh = FALSE], errRegistrationTimeout)
  /\ child' = killed(c, child)
  /\ kills' = kills + sent(c)
  /\ timedOut' = TRUE
  /\ UNCHANGED <<p, sv, deadline, nlines, call, last, stop, lastSet, served, reaped, graceful, aux>>

\* the envelope of a request the loop has answered: its waiter is closed
Answered(op, err, client, list) ==
  [op |-> op, err |-> err, client |-> client, list |-> list,
   adv |-> IF op = "Objects" /\ err = Nil THEN c.objs ELSE << >>,
   tmo |-> timedOut]

\* a connCh case that also hands the client over with a latched error
ServeCallBoth(i) ==
  /\ Sched
  /\ sv = "loop"
  /\ c.connCh
  /\ call[i] = "Call"
  /\ call' = [call EXCEPT ![i] = "ret"]
  /\ last' = IF isFatal(c) THEN Answered("Call", c.err, c.client, << >>)
             ELSE Answered("Call", Nil, c.client, << >>)
  /\ UNCHANGED <<p, sv, c, child, deadline, nlines, stop, lastSet, hist>>

\* case r := <-c.connCh
ServeCall(i) ==
  /\ Sched
  /\ sv = "loop"
  /\ c.connCh
  /\ call[i] = "Call"
  /\ call' = [call EXCEPT ![i] = "ret"]
  /\ last' = IF isFatal(c) THEN Answered("Call", c.err, NilClient, << >>)
             ELSE Answered("Call", Nil, c.client, << >>)
  /\ UNCHANGED <<p, sv, c, child, deadline, nlines, stop, lastSet, hist>>

\* case o := <-c.objsCh
ServeObjects(i) ==
  /\ Sched
  /\ sv = "loop"
  /\ c.objsCh
  /\ call[i] = "Objects"
  /\ IF isFatal(c)
       THEN /\ last' = Answered("Objects", c.err, NilClient, << >>)
            /\ call' = [call EXCEPT ![i] = "ret"]
            /\ sv' = sv
       ELSE LET o == objects(c.objs)
            IN  IF o.panic
                  THEN UNCHANGED <<call, last>> /\ sv' = "panic"
                  ELSE /\ last' = Answered("Objects", Nil, NilClient, o.list)
                       /\ call' = [call EXCEPT ![i] = "ret"]
                       /\ sv' = sv
  /\ UNCHANGED <<p, c, child, deadline, nlines, stop, lastSet, hist>>

\* the keys the switch of the line case names
ProtocolKeys == {"auth-token", "fatal", "error", "objects", "ready"}

\* the case of that switch a key selects
route(key) == IF key \in ProtocolKeys THEN key ELSE "default"

\* the switch on the key of a parsed line: the new ctrl, whether the task
\* panicked, whether ctrl.kill ran, whether a ready handshake succeeded
dispatch(k, val, net) ==
  LET same == [c |-> c, panic |-> FALSE, kill |-> FALSE, ok |-> FALSE]
      pe   == parseError(val)
      key  == route(k)
  IN  CASE key = "auth-token" -> [same EXCEPT !.c = [c EXCEPT !.secret = val]]
        [] key = "fatal" ->
             IF pe.panic THEN [same EXCEPT !.panic = TRUE]
             ELSE [same EXCEPT
                     !.c = fatal(c, IF pe.err # Nil THEN pe.err ELSE Err("error", val)),
                     !.kill = TRUE]
        [] key = "error" ->
             IF pe.panic THEN [same EXCEPT !.panic = TRUE] ELSE same
        [] key = "objects" -> [same EXCEPT !.c = [c EXCEPT !.objs = Split(val, ", ")]]
        [] key = "ready" ->
             LET r == ready(c, val, net)
             IN  IF ~r.ok THEN [same EXCEPT !.c = r.c, !.kill = TRUE]
                 ELSE [same EXCEPT !.c = open(r.c), !.ok = TRUE]
        [] OTHER -> same

\* a ready value of the form proto=(unix|tcp) addr=<nonempty>
ValidReady(val) ==
  \E t \in {"unix", "tcp"} :
     LET head == "proto=" \o t \o " addr="
     IN  HasPrefix(val, head) /\ Len(val) > Len(head)

\* the line is a valid ready line and the dial and the header write worked
Handshake(key, val, net) == key = "ready" /\ ValidReady(val) /\ net = "ok"

\* a dial reaches a listener only while the child process exists (a child
\* that was sent the signal may not be gone yet)
Listening(ch) == ch \in {"running", "killed"}

\* case line := <-c.linesCh; net is what the network does if the line
\* makes the loop dial
Line(l, net) ==
  /\ Sched
  /\ sv = "loop"
  /\ c.linesCh
  /\ child \in {"running", "killed", "exit0", "exiterr"}
  /\ net = "ok" /\ parsedLine(l).key = "ready" => Listening(child)
  /\ nlines < MaxLines
  /\ nlines' = nlines + 1
  /\ LET kv == parsedLine(l)
         d  == dispatch(kv.key, kv.val, net)
     IN  IF kv.panic \/ d.panic
           THEN sv' = "panic" /\ UNCHANGED <<c, child, served, kills>>
           ELSE /\ sv' = sv
                /\ c' = d.c
                /\ child' = IF d.kill THEN killed(c, child) ELSE child
                /\ kills' = IF d.kill THEN kills + sent(c) ELSE kills
                /\ served' = (served \/ Handshake(kv.key, kv.val, net))
  /\ UNCHANGED <<p, deadline, call, last, stop, lastSet, timedOut, reaped, graceful, aux>>

\* what ends the kill-request branch: the client is closed (the pointer
\* stays), the request channels are closed, the waiter is kept in over
Shutdown(c0) == [close(c0) EXCEPT !.over = Stopper]

\* a kill-request branch that never waits for the child
KillDoneAlways == TRUE

\* the kill-request completes the waiter at once
KillDoneNow == ~c.waitCh

\* the kill-request kills the process directly
KillDirect == ~c.connCh \/ ~c.client.live

\* case wr := <-p.killCh
KillReq ==
  /\ Sched
  /\ sv = "loop"
  /\ stop = "kill"
  /\ IF KillDoneNow
       THEN /\ stop' = "exit"
            /\ UNCHANGED <<sv, c, child, deadline, kills>>
       ELSE IF KillDirect
         THEN /\ c' = Shutdown(kill(c))
              /\ child' = killed(c, child)
              /\ kills' = kills + sent(c)
              /\ stop' = "wait"
              /\ UNCHANGED <<sv, deadline>>
         ELSE /\ deadline' = "armed"
              /\ sv' = "exitcall"
              /\ stop' = "wait"
              /\ UNCHANGED <<c, child, kills>>
  /\ UNCHANGED <<p, nlines, call, last, lastSet, served, timedOut, reaped, graceful, aux>>

\* c.client.Call("PingoRpc.Exit", 0, nil) returns: the child obeyed and
\* exited with status 0, or the call failed (the child refused it, does not
\* serve the connection, or is gone).  Only a connection the child has
\* authenticated reaches its RPC server.
ExitCallReturn(obeyed) ==
  /\ Sched
  /\ sv = "exitcall"
  /\ obeyed => child = "running" /\ authConn(c.client.secret)
  /\ child' = IF obeyed THEN "exit0" ELSE child
  /\ c' = Shutdown(c)
  /\ sv' = "loop"
  /\ graceful' = (obeyed /\ deadline = "armed")
  /\ UNCHANGED <<p, deadline, nlines, call, last, stop, lastSet, served, timedOut, reaped, kills, aux>>

\* the deadline task: after exitTimeout, kill by pid
DeadlineFire ==
  /\ Sched
  /\ deadline = "armed"
  /\ deadline' = "fired"
  /\ child' = Signal(child)
  /\ kills' = kills + 1
  /\ UNCHANGED <<p, sv, c, nlines, call, last, stop, lastSet, served, timedOut, reaped, graceful, aux>>

\* what cmd.Wait (or the failed spawn) sends on waitCh
WaitErr ==
  CASE child = "exit0"   -> Nil
    [] child = "exiterr" -> Err("ExitError", "exit status")
    [] child = "nospawn" -> Err("error", "exec: not found")

\* case err := <-c.waitCh
WaitDone ==
  /\ Sched
  /\ sv = "loop"
  /\ c.waitCh
  /\ child \in {"exit0", "exiterr", "nospawn"}
  /\ LET c1 == IF WaitErr # Nil THEN fatal(c, WaitErr) ELSE c
     IN  c' = [c1 EXCEPT !.proc = FALSE, !.waitCh = FALSE, !.linesCh = FALSE]
  /\ kills' = IF WaitErr # Nil THEN kills + sent(c) ELSE kills
  /\ stop' = IF c.over # 0 THEN "exit" ELSE stop
  /\ reaped' = TRUE
  /\ UNCHANGED <<p, sv, child, deadline, nlines, call, last, lastSet, served, timedOut, graceful, aux>>

\* a Stop that marks the handle idle when it returns
ExitConfirmIdle ==
  /\ Sched
  /\ sv = "loop"
  /\ stop = "exit"
  /\ sv' = "returned"
  /\ stop' = "returned"
  /\ p' = [p EXCEPT !.running = FALSE]
  /\ UNCHANGED <<c, child, deadline, nlines, call, last, lastSet, hist>>

\* case <-p.exitCh: the loop returns, and so does Stop
ExitConfirm ==
  /\ Sched
  /\ sv = "loop"
  /\ stop = "exit"
  /\ sv' = "returned"
  /\ stop' = "returned"
  /\ UNCHANGED <<p, c, child, deadline, nlines, call, last, lastSet, hist>>

(***************************************************************************)
(* The child process.                                                      *)
(***************************************************************************)

\* the child exits: by itself with status 0 or not, or from the signal
ChildExit(status) ==
  /\ Sched
  /\ child \in {"running", "killed"}
  /\ child = "killed" => status = "exiterr"
  /\ child' = status
  /\ UNCHANGED <<p, sv, c, deadline, nlines, call, last, stop, lastSet, hist>>

Next ==
  \/ Start
  \/ \E i \in Callers, op \in {"Call", "Objects"} : Request(i, op)
  \/ \E i \in Callers : Return(i)
  \/ StopCall
  \/ \E s \in BOOLEAN : runInit(s)
  \/ Timeout
  \/ \E i \in Callers : ServeCall(i)
  \/ \E i \in Callers : ServeObjects(i)
  \/ \E l \in Lines : \E net \in DialOutcomes(l) : Line(l, net)
  \/ KillReq
  \/ \E o \in BOOLEAN : ExitCallReturn(o)
  \/ DeadlineFire
  \/ WaitDone
  \/ ExitConfirm
  \/ \E s \in {"exit0", "exiterr"} : ChildExit(s)

Spec == Init /\ [][Next]_vars

\* the handle's lifecycle with its configuration setters, callers left out
NextHandle ==
  \/ \E h \in {"custom"} : SetErrorHandler(h)
  \/ \E t \in {0, 1} : SetTimeout(t)
  \/ \E d \in {"/run"} : SetSocketDirectory(d)
  \/ Start
  \/ StopCall
  \/ \E s \in BOOLEAN : runInit(s)
  \/ Timeout
  \/ \E l \in HandshakeLines : \E net \in DialOutcomes(l) : Line(l, net)
  \/ KillReq
  \/ \E o \in BOOLEAN : ExitCallReturn(o)
  \/ DeadlineFire
  \/ WaitDone
  \/ ExitConfirm
  \/ \E s \in {"exit0", "exiterr"} : ChildExit(s)

SpecHandle == Init /\ [][NextHandle]_vars

(***************************************************************************)
(* The event loop under the scheduling the Go runtime gives it: a select   *)
(* case that is ready again and again is eventually taken, a timer that is *)
(* armed fires, a pending RPC returns, and a child that was sent the kill  *)
(* signal exits.  A child that is not killed, and a caller, may do nothing.*)
(***************************************************************************)
Fairness ==
  /\ \A i \in Callers : SF_vars(Return(i))
  /\ \A i \in Callers : SF_vars(ServeCall(i))
  /\ \A i \in Callers : SF_vars(ServeObjects(i))
  /\ SF_vars(\E s \in BOOLEAN : runInit(s))
  /\ SF_vars(Timeout)
  /\ SF_vars(KillReq)
  /\ SF_vars(\E o \in BOOLEAN : ExitCallReturn(o))
  /\ SF_vars(DeadlineFire)
  /\ SF_vars(WaitDone)
  /\ SF_vars(ExitConfirm)
  /\ SF_vars(child = "killed" /\ ChildExit("exiterr"))

FairSpec == Spec /\ Fairness

(***************************************************************************)
(* meta.parse and the switch of the line case on bounded lines.            *)
(***************************************************************************)

Prefixes == {Prefix, "pg"}

\* what a line may start with, given the prefix h
FrameHeads(h) ==
  {h, "", Slice(h, 0, Len(h) - 1), Slice(h, 0, Len(h) - 1) \o "Z", "x" \o h}

FrameSeps == {": ", "::", "xy", ":", ""}

FrameKeys == ProtocolKeys \cup {"note", ""}

FrameMids == {": ", ":", ""}

FrameVals == {"", "v", "a: b"}

FrameLines(h) ==
  {a \o b \o k \o m \o v :
     a \in FrameHeads(h), b \in FrameSeps, k \in FrameKeys, m \in FrameMids,
     v \in FrameVals}

InitParse ==
  /\ InitHost
  /\ IdleServe /\ IdleReady /\ IdleKid /\ IdleTasks /\ IdleStops
  /\ \E h \in Prefixes : \E l \in FrameLines(h) :
       fr = [h |-> h, line |-> l, pc |-> "line", res |-> NoKey, to |-> ""]

\* key, val := p.meta.parse(line)
ParseLine ==
  /\ fr.pc = "line"
  /\ fr' = [fr EXCEPT !.pc = "parsed", !.res = parse(fr.h, fr.line)]
  /\ UNCHANGED <<host, srv, rd, kid, tasks, stops>>

\* switch key: the case taken; a panic of parse ends the task before it
RouteLine ==
  /\ fr.pc = "parsed"
  /\ fr' = [fr EXCEPT !.pc = "routed",
                      !.to = IF fr.res.panic THEN "panic" ELSE route(fr.res.key)]
  /\ UNCHANGED <<host, srv, rd, kid, tasks, stops>>

NextParse == ParseLine \/ RouteLine

SpecParse == InitParse /\ [][NextParse]_vars

\* prefixes a meta may hold: NewPlugin's, a short one, the empty one and one
\* holding the separator
OutPrefixes == {Prefix, "pg", "", "a: b"}

\* keys without ':'
OutKeys == ProtocolKeys \cup {"note", "", "a b"}

\* values: empty, plain, holding ": ", holding ':' alone, blank
OutVals == {"", "v", "a: b", "x:y", ":", ": ", " "}

\* a child about to print (key, val) under prefix h
InitFrame ==
  /\ InitHost
  /\ IdleServe /\ IdleReady /\ IdleKid /\ IdleTasks /\ IdleStops
  /\ \E h \in OutPrefixes : \E k \in OutKeys : \E v \in OutVals :
       fr = [h |-> h, key |-> k, val |-> v, line |-> "", pc |-> "new",
             res |-> NoKey, to |-> ""]

\* h.output(key, val): the line the supervisor's scanner hands over
OutputLine ==
  /\ fr.pc = "new"
  /\ fr' = [fr EXCEPT !.pc = "line", !.line = output(fr.h, fr.key, fr.val)]
  /\ UNCHANGED <<host, srv, rd, kid, tasks, stops>>

NextFrame == OutputLine \/ ParseLine \/ RouteLine

SpecFrame == InitFrame /\ [][NextFrame]_vars

(***************************************************************************)
(* The child runtime: how it serves an accepted connection.                *)
(***************************************************************************)

\* connections one child accepts
MaxConns == 2

\* readHeaders from byte n (0-based): up to and with the first blank line,
\* or the read error of a stream that ends before it
RECURSIVE readHeaders(_, _, _)
readHeaders(stream, n, headerEnd) ==
  IF n >= Len(stream) THEN [err |-> TRUE, bytes |-> ""]
  ELSE IF Slice(stream, n, n + 1) = "\n"
    THEN IF headerEnd THEN [err |-> FALSE, bytes |-> Slice(stream, 0, n + 1)]
         ELSE readHeaders(stream, n + 1, TRUE)
  ELSE readHeaders(stream, n + 1, FALSE)

\* bufio.ScanLines drops one trailing carriage return
dropCR(line) ==
  IF Len(line) > 0 /\ Slice(line, Len(line) - 1, Len(line)) = "\r"
    THEN Slice(line, 0, Len(line) - 1)
    ELSE line

\* the tokens bufio.Scanner yields for the header bytes
RECURSIVE scanLines(_)
scanLines(bytes) ==
  IF bytes = "" THEN << >>
  ELSE LET i == Index(bytes, "\n")
       IN  IF i < 0 THEN <<dropCR(bytes)>>
           ELSE <<dropCR(Slice(bytes, 0, i))>> \o scanLines(SliceFrom(bytes, i + 1))

\* the loop of parseHeaders over the scanned lines: m[parts[0]] = parts[1]
\* panics for a line that holds no ": "
RECURSIVE headerLoop(_, _)
headerLoop(lines, m) ==
  IF lines = << >> THEN [panic |-> FALSE, m |-> m]
  ELSE LET parts == SplitN2(Head(lines), ": ")
       IN  IF parts[1] = "" THEN headerLoop(Tail(lines), m)
           ELSE IF Len(parts) < 2 THEN [panic |-> TRUE, m |-> m]
           ELSE headerLoop(Tail(lines),
                           [k \in DOMAIN m \cup {parts[1]} |->
                              IF k = parts[1] THEN parts[2] ELSE m[k]])

\* parseHeaders: the read error, the panic, the map
parseHeaders(stream) ==
  LET rh == readHeaders(stream, 0, FALSE)
      hl == headerLoop(scanLines(rh.bytes), [k \in {} |-> ""])
  IN  IF rh.err THEN [err |-> TRUE, panic |-> FALSE, m |-> [k \in {} |-> ""]]
      ELSE [err |-> FALSE, panic |-> hl.panic, m |-> hl.m]

\* headers["Auth-Token"]: the zero value for a missing key
header(m, k) == IF k \in DOMAIN m THEN m[k] ELSE ""

\* rpcServer.serveConn: how the connection ends up
serveConn(stream) ==
  LET ph == parseHeaders(stream)
  IN  IF ph.err THEN "closed"
      ELSE IF ph.panic THEN "panic"
      ELSE IF authConn(header(ph.m, "Auth-Token")) THEN "rpc"
      ELSE "closed"

\* one line of a header block
HeaderLines ==
  { "Auth-Token: " \o ChildSecret, "Auth-Token: wrong", "Auth-Token: ",
    "Auth-Token", "X-Peer: 1", ": v", "junk" }

\* the bytes a client sends before it waits or hangs up
Streams ==
  {l \o "\n\n" : l \in HeaderLines}
  \cup {l1 \o "\n" \o l2 \o "\n\n" :
          l1 \in HeaderLines, l2 \in {"Auth-Token: " \o ChildSecret, "junk"}}
  \cup {"", "\n\n", "Auth-Token: " \o ChildSecret \o "\n",
        authenticate(ChildSecret) \o "call"}

InitServe ==
  /\ InitHost
  /\ IdleParse /\ IdleReady /\ IdleKid /\ IdleTasks /\ IdleStops
  /\ srv = [up |-> TRUE, conns |-> << >>]

\* listener.Accept and go r.serveConn: stream is what the peer sends
Accept(stream) ==
  /\ srv.up
  /\ Len(srv.conns) < MaxConns
  /\ srv' = [srv EXCEPT !.conns = Append(@, [stream |-> stream, st |-> "accepted"])]
  /\ UNCHANGED <<host, fr, rd, kid, tasks, stops>>

\* the serveConn task of connection k runs; its panic ends the child
ServeConn(k) ==
  /\ srv.up
  /\ k \in DOMAIN srv.conns
  /\ srv.conns[k].st = "accepted"
  /\ LET end == serveConn(srv.conns[k].stream)
     IN  srv' = [up    |-> end # "panic",
                 conns |-> [srv.conns EXCEPT ![k].st = end]]
  /\ UNCHANGED <<host, fr, rd, kid, tasks, stops>>

NextServe ==
  \/ \E stream \in Streams : Accept(stream)
  \/ \E k \in 1..MaxConns : ServeConn(k)

SpecServe == InitServe /\ [][NextServe]_vars

(***************************************************************************)
(* The child runtime: Run, from its flags to the accept loop, with the     *)
(* supervisor reading the lines it prints.                                 *)
(***************************************************************************)

\* tcp.retries
TcpRetries == 500

\* unix.retries
UnixRetries == 4

\* the port below the first one tcp.addr tries
PortFloor == 1023

\* NewPlugin's proto argument
Protos == {"unix", "tcp"}

\* values of randstr(8)
RandNames == {"aZ09_-bc", "Qq7xYz12"}

\* r.objs: PingoRpc from newRpcServer, then what the plugin registered
Registered == <<internalObject, "Greeter">>

\* strings.Join
RECURSIVE Join(_, _)
Join(elems, sep) ==
  IF elems = << >> THEN ""
  ELSE IF Len(elems) = 1 THEN elems[1]
  ELSE elems[1] \o sep \o Join(Tail(elems), sep)

\* path.Join of a clean directory and a file name
pathJoin(dir, name) ==
  IF Len(dir) > 0 /\ Slice(dir, Len(dir) - 1, Len(dir)) = "/"
    THEN dir \o name
    ELSE dir \o "/" \o name

\* tcp.addr without the floor of the unprivileged ports
tcpNextNoFloor(t) == t + 1

\* tcp.addr: the counter after the call
tcpNext(t) == (IF t < PortFloor + 1 THEN PortFloor ELSE t) + 1

\* tcp.addr: the address returned
tcpAddr(t) == "127.0.0.1:" \o ToString(tcpNext(t))

\* unix.addr for the random name drawn
unixAddr(u, name) == IF u # "" THEN pathJoin(u, name) ELSE name

\* conn.retries()
retries(proto) == IF proto = "tcp" THEN TcpRetries ELSE UnixRetries

\* the argv Plugin.run builds, as the config the child's flags fill: proto
\* and, for unix with a socket directory, unixdir; addr is set by run
argv(proto, unixdir) ==
  [proto   |-> proto,
   unixdir |-> IF proto = "unix" /\ unixdir # "" THEN unixdir ELSE "",
   prefix  |-> Prefix,
   addr    |-> ""]

\* the handle is created for one transport
InitChild ==
  /\ InitHost
  /\ IdleParse /\ IdleServe /\ IdleReady /\ IdleTasks /\ IdleStops
  /\ \E proto \in Protos : kid = [pc |-> "new", proto |-> proto]

\* the child process starts: flag.Parse of the argv the supervisor built
Exec ==
  /\ kid.pc = "new"
  /\ child = "running"
  /\ kid' = [pc      |-> "run",
             conf    |-> argv(kid.proto, p.unixdir),
             t       |-> 0,
             u       |-> "",
             i       |-> 0,
             tries   |-> 0,
             addr    |-> "",
             bound   |-> "",
             failed  |-> FALSE,
             out     |-> << >>,
             ret     |-> "none"]
  /\ UNCHANGED <<host, fr, srv, rd, tasks, stops>>

\* rpcServer.run up to the bind loop: the objects line, the connection kind
RunObjects ==
  /\ kid.pc = "run"
  /\ Listening(child)
  /\ kid' = [kid EXCEPT
               !.pc = "bind",
               !.out = Append(@, output(kid.conf.prefix, "objects",
                                        Join(Registered, ", "))),
               !.conf.proto = IF @ = "tcp" THEN "tcp" ELSE "unix",
               !.t = 0,
               !.u = ""]
  /\ UNCHANGED <<host, fr, srv, rd, tasks, stops>>

\* one turn of the bind loop: conn.addr(), net.Listen, break on success
Listen(name, ok) ==
  /\ kid.pc = "bind"
  /\ Listening(child)
  /\ kid.i < retries(kid.conf.proto)
  /\ LET tcpc == kid.conf.proto = "tcp"
         a    == IF tcpc THEN tcpAddr(kid.t) ELSE unixAddr(kid.u, name)
     IN  kid' = [kid EXCEPT
                   !.t = IF tcpc THEN tcpNext(kid.t) ELSE @,
                   !.addr = a,
                   !.conf.addr = a,
                   !.tries = @ + 1,
                   !.failed = ~ok,
                   !.bound = IF ok THEN a ELSE @,
                   !.i = IF ok THEN @ ELSE @ + 1,
                   !.pc = IF ok THEN "bound"
                          ELSE IF kid.i + 1 < retries(kid.conf.proto) THEN "bind"
                          ELSE "unbound"]
  /\ UNCHANGED <<host, fr, srv, rd, tasks, stops>>

\* a run that blames the accept loop for the failed bind
EmitFatalHttp ==
  /\ kid.pc = "unbound"
  /\ Listening(child)
  /\ kid' = [kid EXCEPT
               !.pc = "returned",
               !.out = Append(@, output(kid.conf.prefix, "fatal",
                                        errorCodeHttpServe \o ": Could not connect")),
               !.ret = "err"]
  /\ UNCHANGED <<host, fr, srv, rd, tasks, stops>>

\* if err != nil after the loop: the fatal line, return err
EmitFatal ==
  /\ kid.pc = "unbound"
  /\ Listening(child)
  /\ kid' = [kid EXCEPT
               !.pc = "returned",
               !.out = Append(@, output(kid.conf.prefix, "fatal",
                          errorCodeConnFailed \o ": Could not connect in "
                          \o ToString(retries(kid.conf.proto))
                          \o " attemps, using " \o kid.conf.proto \o " protocol")),
               !.ret = "err"]
  /\ UNCHANGED <<host, fr, srv, rd, tasks, stops>>

\* a run that prints no auth-token line
EmitTokenSkipped ==
  /\ kid.pc = "bound"
  /\ Listening(child)
  /\ kid' = [kid EXCEPT !.pc = "token"]
  /\ UNCHANGED <<host, fr, srv, rd, tasks, stops>>

\* h.output("auth-token", defaultServer.secret)
EmitToken ==
  /\ kid.pc = "bound"
  /\ Listening(child)
  /\ kid' = [kid EXCEPT
               !.pc = "token",
               !.out = Append(@, output(kid.conf.prefix, "auth-token", ChildSecret))]
  /\ UNCHANGED <<host, fr, srv, rd, tasks, stops>>

\* h.output("ready", "proto=%s addr=%s"); the accept loop follows
EmitReady ==
  /\ kid.pc = "token"
  /\ Listening(child)
  /\ kid' = [kid EXCEPT
               !.pc = "accept",
               !.out = Append(@, output(kid.conf.prefix, "ready",
                          "proto=" \o kid.conf.proto \o " addr=" \o kid.conf.addr))]
  /\ UNCHANGED <<host, fr, srv, rd, tasks, stops>>

\* the supervisor reads the next line the child has printed
Deliver(net) ==
  /\ kid.pc \notin {"new", "run"}
  /\ nlines < Len(kid.out)
  /\ net \in DialOutcomes(kid.out[nlines + 1])
  /\ Line(kid.out[nlines + 1], net)

NextChild ==
  \/ \E d \in {"/run"} : SetSocketDirectory(d)
  \/ Start
  \/ runInit(TRUE)
  \/ Timeout
  \/ Exec
  \/ RunObjects
  \/ \E name \in RandNames, ok \in BOOLEAN : Listen(name, ok)
  \/ EmitFatal
  \/ EmitToken
  \/ EmitReady
  \/ \E net \in NetOutcomes : Deliver(net)

SpecChild == InitChild /\ [][NextChild]_vars

(***************************************************************************)
(* plugin.go: ctrl.ready on the ready values a child may print.            *)
(***************************************************************************)

\* ready values: well formed, and every way parseReady's steps can fail or
\* be passed with nothing after addr=
ReadyVals ==
  {"proto=tcp addr=127.0.0.1:1024", "proto=unix addr=aZ09_-bc",
   "proto=tcp addr=", "proto=unix addr=",
   "proto=sctp addr=x", "proto= addr=x", "proto=tcp", "proto=tcp addr",
   "proto=tcp  addr=x", "addr=x proto=tcp", "tcp addr=x", ""}

\* a started handle whose child is about to print one ready value
InitReady ==
  /\ InitHost
  /\ IdleParse /\ IdleServe /\ IdleKid /\ IdleTasks /\ IdleStops
  /\ \E v \in ReadyVals : rd = [pc |-> "new", val |-> v]

\* the child's auth-token line reaches the loop before its ready line
TokenLine ==
  /\ nlines = 0
  /\ Line(output(Prefix, "auth-token", ChildSecret), "ok")

\* the child's ready line reaches the loop: case "ready" calls c.ready(val)
ReadyLine(net) ==
  /\ nlines = (IF c.secret = "" THEN 0 ELSE 1)
  /\ Line(output(Prefix, "ready", rd.val), net)

NextReady ==
  \/ Start
  \/ runInit(TRUE)
  \/ Timeout
  \/ TokenLine
  \/ \E net \in NetOutcomes : ReadyLine(net)
  \/ \E i \in Callers : \E op \in {"Call", "Objects"} : Request(i, op)
  \/ \E i \in Callers : ServeCall(i)
  \/ \E i \in Callers : ServeObjects(i)
  \/ \E i \in Callers : Return(i)

SpecReady == InitReady /\ [][NextReady]_vars

(***************************************************************************)
(* plugin.go: the fatal and error cases of the line switch, on the values  *)
(* a child may print after either key.                                     *)
(***************************************************************************)

\* values of a fatal or error line: the two known codes, an unknown code,
\* free-form text without ": ", the empty value, an empty code
StatusVals ==
  {errorCodeConnFailed \o ": no port", errorCodeHttpServe \o ": accept",
   "oops: detail", "boom", "", ": x"}

\* a handle whose child will print one fatal or error line
InitStatus ==
  /\ InitHost
  /\ IdleParse /\ IdleServe /\ IdleKid /\ IdleTasks /\ IdleStops
  /\ \E k \in {"fatal", "error"} : \E v \in StatusVals :
       rd = [pc |-> "status", key |-> k, val |-> v]

\* the child's fatal or error line reaches the loop
StatusLine ==
  /\ rd.pc = "status"
  /\ Line(output(Prefix, rd.key, rd.val), "ok")

NextStatus ==
  \/ Start
  \/ runInit(TRUE)
  \/ Timeout
  \/ \E l \in HandshakeLines : \E net \in DialOutcomes(l) : Line(l, net)
  \/ StatusLine
  \/ \E i \in Callers : \E op \in {"Call", "Objects"} : Request(i, op)
  \/ \E i \in Callers : ServeCall(i)
  \/ \E i \in Callers : ServeObjects(i)
  \/ \E i \in Callers : Return(i)

SpecStatus == InitStatus /\ [][NextStatus]_vars

(***************************************************************************)
(* plugin.go: Start called any number of times.  Every call runs           *)
(* go p.run(): tasks holds one record per event-loop task, with its own    *)
(* ctrl and child; killCh and exitCh belong to the handle and are shared.  *)
(***************************************************************************)

\* Start calls in one run
MaxStarts == 3

\* the state of the one-task view, which Start called freely leaves alone
single == <<sv, c, child, deadline, nlines, call, last, lastSet, served, timedOut, reaped, sigs, fr, srv, rd, kid, stops>>

\* the tasks that have not returned from Plugin.run
liveTasks == {k \in DOMAIN tasks : tasks[k].pc # "returned"}

\* Start: no test of p.running, every call spawns a task
StartAny ==
  /\ Len(tasks) < MaxStarts
  /\ p' = [p EXCEPT !.running = TRUE]
  /\ tasks' = Append(tasks, [pc |-> "start", c |-> newCtrl, child |-> "none"])
  /\ UNCHANGED <<stop, single>>

\* run of task k up to the select loop
runInitOf(k) ==
  /\ tasks[k].pc = "start"
  /\ p' = [p EXCEPT !.unixdir = IF @ = "" THEN TempDir ELSE @]
  /\ tasks' = [tasks EXCEPT ![k] = [pc |-> "loop", c |-> [newCtrl EXCEPT !.proc = TRUE],
                                    child |-> "running"]]
  /\ UNCHANGED <<stop, single>>

\* case wr := <-p.killCh in task k (no client yet: it kills directly)
KillReqOf(k) ==
  /\ tasks[k].pc = "loop"
  /\ stop = "kill"
  /\ LET t == tasks[k]
     IN  IF ~t.c.waitCh
           THEN stop' = "exit" /\ UNCHANGED tasks
           ELSE /\ tasks' = [tasks EXCEPT ![k] = [t EXCEPT !.c = Shutdown(kill(t.c)),
                                                            !.child = killed(t.c, t.child)]]
                /\ stop' = "wait"
  /\ UNCHANGED <<p, single>>

\* the child of task k exits
ChildExitOf(k, status) ==
  /\ tasks[k].child \in {"running", "killed"}
  /\ tasks[k].child = "killed" => status = "exiterr"
  /\ tasks' = [tasks EXCEPT ![k].child = status]
  /\ UNCHANGED <<p, stop, single>>

\* case err := <-c.waitCh in task k
WaitDoneOf(k) ==
  /\ tasks[k].pc = "loop"
  /\ tasks[k].c.waitCh
  /\ tasks[k].child \in {"exit0", "exiterr"}
  /\ LET t  == tasks[k]
         c1 == IF t.child = "exiterr" THEN fatal(t.c, Err("ExitError", "exit status"))
               ELSE t.c
     IN  /\ tasks' = [tasks EXCEPT ![k].c =
                        [c1 EXCEPT !.proc = FALSE, !.waitCh = FALSE, !.linesCh = FALSE]]
         /\ stop' = IF t.c.over # 0 THEN "exit" ELSE stop
  /\ UNCHANGED <<p, single>>

\* case <-p.exitCh in task k: the task returns, and so does Stop
ExitConfirmOf(k) ==
  /\ tasks[k].pc = "loop"
  /\ stop = "exit"
  /\ tasks' = [tasks EXCEPT ![k].pc = "returned"]
  /\ stop' = "returned"
  /\ UNCHANGED <<p, single>>

NextStart ==
  \/ StartAny
  \/ StopCall
  \/ \E k \in DOMAIN tasks : runInitOf(k)
  \/ \E k \in DOMAIN tasks : KillReqOf(k)
  \/ \E k \in DOMAIN tasks : \E s \in {"exit0", "exiterr"} : ChildExitOf(k, s)
  \/ \E k \in DOMAIN tasks : WaitDoneOf(k)
  \/ \E k \in DOMAIN tasks : ExitConfirmOf(k)

SpecStart == Init /\ [][NextStart]_vars

(***************************************************************************)
(* plugin.go: Stop called from several threads on one handle.  Each call   *)
(* makes its own waiter, sends it on killCh, waits for it to be closed and *)
(* then sends on exitCh.  stops[s].pc is where call s is; stops[s].done    *)
(* counts the calls of done() on its waiter; ctrl.over names the call      *)
(* whose waiter the loop keeps.                                            *)
(***************************************************************************)

\* threads that call Stop
NStops == 2

Stoppers == 1..NStops

\* what the racing Stop calls leave alone
unstopped == <<p, nlines, call, last, stop, lastSet, served, timedOut, graceful, fr, srv, rd, kid, tasks>>

InitStops ==
  /\ InitHost
  /\ IdleParse /\ IdleServe /\ IdleReady /\ IdleKid /\ IdleTasks
  /\ stops = [s \in Stoppers |-> [pc |-> "idle", done |-> 0]]

\* Stop of thread s up to the send of its waiter on killCh
StopCallOf(s) ==
  /\ Sched
  /\ p.running
  /\ stops[s].pc = "idle"
  /\ stops' = [stops EXCEPT ![s].pc = "kill"]
  /\ UNCHANGED <<sv, c, child, deadline, kills, reaped, unstopped>>

\* the end of the kill-request branch for the waiter of s: c.over = wr
ShutdownFor(c0, s) == [close(c0) EXCEPT !.over = s]

\* case wr := <-p.killCh, wr the waiter of s
KillReqFrom(s) ==
  /\ Sched
  /\ sv = "loop"
  /\ stops[s].pc = "kill"
  /\ IF ~c.waitCh
       THEN /\ stops' = [stops EXCEPT ![s] = [pc |-> "wait", done |-> @.done + 1]]
            /\ UNCHANGED <<sv, c, child, deadline, kills>>
       ELSE IF KillDirect
         THEN /\ c' = ShutdownFor(kill(c), s)
              /\ child' = killed(c, child)
              /\ kills' = kills + sent(c)
              /\ stops' = [stops EXCEPT ![s].pc = "wait"]
              /\ UNCHANGED <<sv, deadline>>
         ELSE /\ deadline' = "armed"
              /\ sv' = "exitcall"
              /\ stops' = [stops EXCEPT ![s].pc = "accepted"]
              /\ UNCHANGED <<c, child, kills>>
  /\ UNCHANGED <<reaped, unstopped>>

\* c.client.Call("PingoRpc.Exit", 0, nil) returns in the branch of s
ExitCallReturnFrom(s, obeyed) ==
  /\ Sched
  /\ sv = "exitcall"
  /\ stops[s].pc = "accepted"
  /\ obeyed => child = "running" /\ authConn(c.client.secret)
  /\ child' = IF obeyed THEN "exit0" ELSE child
  /\ c' = ShutdownFor(c, s)
  /\ sv' = "loop"
  /\ stops' = [stops EXCEPT ![s].pc = "wait"]
  /\ UNCHANGED <<deadline, kills, reaped, unstopped>>

\* case err := <-c.waitCh: c.over.done() closes the waiter the loop keeps
WaitDoneOver ==
  /\ Sched
  /\ sv = "loop"
  /\ c.waitCh
  /\ child \in {"exit0", "exiterr", "nospawn"}
  /\ LET c1 == IF WaitErr # Nil THEN fatal(c, WaitErr) ELSE c
     IN  c' = [c1 EXCEPT !.proc = FALSE, !.waitCh = FALSE, !.linesCh = FALSE]
  /\ kills' = IF WaitErr # Nil THEN kills + sent(c) ELSE kills
  /\ stops' = IF c.over # 0 THEN [stops EXCEPT ![c.over].done = @ + 1] ELSE stops
  /\ reaped' = TRUE
  /\ UNCHANGED <<sv, child, deadline, unstopped>>

\* wr.wait() of s returns: its waiter was closed; s goes on to its send on
\* exitCh
StopWake(s) ==
  /\ stops[s].pc = "wait"
  /\ stops[s].done >= 1
  /\ stops' = [stops EXCEPT ![s].pc = "exit"]
  /\ UNCHANGED <<sv, c, child, deadline, kills, reaped, unstopped>>

\* case <-p.exitCh, sent by s: the loop returns, and so does the Stop of s
ExitConfirmFrom(s) ==
  /\ Sched
  /\ sv = "loop"
  /\ stops[s].pc = "exit"
  /\ sv' = "returned"
  /\ stops' = [stops EXCEPT ![s].pc = "returned"]
  /\ UNCHANGED <<c, child, deadline, kills, reaped, unstopped>>

NextStops ==
  \/ Start
  \/ runInit(TRUE)
  \/ \E l \in HandshakeLines : \E net \in DialOutcomes(l) : Line(l, net)
  \/ \E s \in Stoppers : StopCallOf(s)
  \/ \E s \in Stoppers : KillReqFrom(s)
  \/ \E s \in Stoppers : \E o \in BOOLEAN : ExitCallReturnFrom(s, o)
  \/ DeadlineFire
  \/ WaitDoneOver
  \/ \E s \in Stoppers : StopWake(s)
  \/ \E s \in Stoppers : ExitConfirmFrom(s)
  \/ \E st \in {"exit0", "exiterr"} : ChildExit(st)

SpecStops == InitStops /\ [][NextStops]_vars

(***************************************************************************)
(* Properties.                                                             *)
(***************************************************************************)

\* C1: a Call is answered with a non-nil RPC client only after a valid
\* ready line was processed whose dial and auth-header write succeeded.
C1_SerializedAdmission == (last.op = "Call" /\ last.client.live) => served

\* a Call answered with the RPC client of a completed handshake
C1_Witness == last.op = "Call" /\ last.client.live /\ served

\* C2: once the supervisor's fatal error is set its value never changes, so
\* every later Call/Objects is answered with the error the first one saw.
C2_LatchedFatal == [][c.err # Nil => c'.err = c.err]_vars

\* C3: a Stop that was called eventually returns.
C3_StopReturns == (stop = "kill") ~> (stop = "returned")

\* C4: the Stop waiter is closed only after the loop has received the
\* child-wait completion, and when Stop has returned the loop has taken its
\* exit-confirm branch.
C4_StopAfterReap ==
  /\ stop \in {"exit", "returned"} =>
       reaped /\ child \in {"exit0", "exiterr", "nospawn"}
  /\ stop = "returned" => sv = "returned"

\* Stop has returned; its kill-request came first and the child-wait
\* completion closed the waiter kept in over
C4_Witness == stop = "returned" /\ c.over = Stopper /\ reaped

\* C5: a Call/Objects blocked on its send once Stop has returned can be
\* answered (it does not block forever).
C5_CallAfterStopFails ==
  \A i \in Callers :
    (stop = "returned" /\ call[i] \in {"Call", "Objects"}) =>
      ENABLED (ServeCall(i) \/ ServeObjects(i))

\* C6: every Call/Objects answered after the registration timeout fired
\* returns the RegistrationTimeout error.
C6_TimeoutError ==
  (last.op # "none" /\ last.tmo) => last.err = errRegistrationTimeout

CarriesSecret(stream) ==
  LET tok == "Auth-Token: " \o ChildSecret \o "\n"
  IN  HasPrefix(stream, tok) \/ Index(stream, "\n" \o tok) >= 0

\* C8: a served connection whose header block does not carry the secret is
\* closed, never handed to the RPC server, and the child goes on accepting.
C8_AuthEnforced ==
  \A k \in DOMAIN srv.conns :
    (srv.conns[k].st # "accepted" /\ ~CarriesSecret(srv.conns[k].stream)) =>
      (srv.conns[k].st = "closed" /\ srv.up)

\* C9: a line that does not begin with "<prefix>: " parses to the empty key
\* and takes the default case of the switch.
C9_PrefixParsing ==
  (fr.pc = "routed" /\ ~HasPrefix(fr.line, fr.h \o ": ")) =>
    (fr.res.key = "" /\ fr.to = "default")

\* C10 as stated: once Stop has returned the handle is idle again.
C10_IdleAfterStop ==
  stop = "returned" => (~p.running /\ lastSet # "panicAfterStop")

\* the handle's flag follows Start alone, and a setter panics only on a
\* running handle
RunningSinceStart ==
  /\ p.running <=> sv # "none"
  /\ lastSet \in {"panic", "panicAfterStop"} => p.running

\* C10, amended: running is false at creation, true from Start on and never
\* reset, not by Stop either; from Start on every setter call panics and
\* leaves the configuration as it was.
C10_RunningLatched ==
  /\ []RunningSinceStart
  /\ [][p.running =>
          /\ p'.running
          /\ p'.handler = p.handler
          /\ p'.initTimeout = p.initTimeout
          /\ p'.exitTimeout = p.exitTimeout
          /\ lastSet' # lastSet => lastSet' \in {"panic", "panicAfterStop"}]_vars

\* Stop has returned, the handle is still running and a setter called after
\* it panicked
C10_Witness == stop = "returned" /\ p.running /\ lastSet = "panicAfterStop"

\* C12: when the child has exited with status 0 on PingoRpc.Exit within the
\* shutdown timeout, the deadline task never kills its pid.
C12_GracefulNoKill == graceful => deadline # "fired"

\* C13: the child's pid is sent a kill at most once, ctrl.kill and the
\* deadline task's kill counted together.
C13_KillOnce == kills <= 1

\* C19: a Call is handed an RPC client only if the connection carried a
\* secret the child accepts.
C19_AuthenticatedClient ==
  (last.op = "Call" /\ last.client.live) => authConn(last.client.secret)

\* C20: once a kill-request was processed with the child not yet reaped, no
\* Call is completed with an RPC client.
C20_ShutdownGating ==
  (last.op = "Call" /\ c.over # 0) => ~last.client.live

\* the keys of the lines the child has printed, as the supervisor parses
\* them
outKeys ==
  IF kid.pc \in {"off", "new"} THEN << >>
  ELSE [k \in 1..Len(kid.out) |-> parse(kid.conf.prefix, kid.out[k]).key]

\* the value of the k-th line the child has printed
outVal(k) == parse(kid.conf.prefix, kid.out[k]).val

IsPrefixOf(a, b) == Len(a) <= Len(b) /\ a = SubSeq(b, 1, Len(a))

\* C14: the child prints objects, then auth-token, then ready, in that
\* order; ready only after a listen succeeded and never without a preceding
\* auth-token.
C14_HandshakeOrder ==
  /\ \/ IsPrefixOf(outKeys, <<"objects", "auth-token", "ready">>)
     \/ outKeys = <<"objects", "fatal">>
  /\ \A k \in DOMAIN outKeys :
       outKeys[k] = "ready" =>
         /\ ~kid.failed /\ kid.bound # ""
         /\ \E j \in 1..(k - 1) : outKeys[j] = "auth-token"

\* the child has printed its whole handshake and accepts connections
C14_Witness ==
  kid.pc = "accept" /\ outKeys = <<"objects", "auth-token", "ready">>

C16_UnixBindPolicy ==
  (kid.pc \notin {"off", "new"} /\ kid.conf.proto = "unix" /\ kid.tries >= 1) =>
    /\ kid.tries <= 4
    /\ \E name \in RandNames : Len(name) = 8 /\ kid.addr = pathJoin(p.unixdir, name)
    /\ \A k \in DOMAIN outKeys :
         outKeys[k] = "ready" => outVal(k) = "proto=unix addr=" \o kid.addr

\* the run of a child none of whose bind attempts succeeded
BindFailed ==
  /\ kid.pc = "unbound" => kid.failed /\ kid.tries = retries(kid.conf.proto)
  /\ kid.pc = "returned" =>
       /\ kid.failed /\ kid.tries = retries(kid.conf.proto)
       /\ kid.ret = "err"
       /\ outKeys = <<"objects", "fatal">>
       /\ HasPrefix(outVal(2), "err-connection-failed: ")

\* C17: when every bind attempt fails the child prints a fatal line whose
\* value starts with "err-connection-failed: ", no auth-token and no ready,
\* and Run returns an error; the supervisor that reads the line latches a
\* ConnectionFailed error.
C17_BindFailure ==
  /\ []BindFailed
  /\ [][(kid.pc = "returned" /\ nlines' = nlines + 1 /\ nlines' = Len(kid.out)) =>
          (sv' = "loop" /\ c'.err.code = "ConnectionFailed")]_vars

\* the supervisor has read the fatal line of a child that could not bind
C17_Witness ==
  /\ kid.pc = "returned" /\ nlines = Len(kid.out)
  /\ c.err.code = "ConnectionFailed"


\* C18: a ready value that is not of the form proto=(unix|tcp)
\* addr=<nonempty> makes the supervisor latch InvalidMessage, drop the
\* process handle by killing the child, and dial nothing: the step that
\* reads the ready line leaves the client as it was.
C18_StrictReady ==
  [][((\E net \in NetOutcomes : ReadyLine(net)) /\ ~ValidReady(rd.val)) =>
       (c'.err = errInvalidMessage /\ ~c'.proc /\ c'.client = c.client)]_vars


\* C11: between Start and the return of Stop exactly one event-loop task
\* exists for the handle, however many times Start was called.
C11_OneTask ==
  (p.running /\ stop # "returned") => Cardinality(liveTasks) = 1


\* C26: framing round trip: for every prefix, every key without ':' and
\* every value, meta.parse of the line meta.output printed for (key, value)
\* under the same prefix returns exactly (key, value), without a panic.
C26_FramingRoundTrip ==
  (fr.pc \in {"parsed", "routed"} /\ "key" \in DOMAIN fr) =>
     fr.res = [panic |-> FALSE, key |-> fr.key, val |-> fr.val]

\* a value holding ": " under a prefix holding ": " has made the round trip
C26_Witness ==
  /\ fr.pc = "parsed"
  /\ "key" \in DOMAIN fr
  /\ fr.h = "a: b" /\ fr.key = "fatal" /\ fr.val = "a: b"
  /\ fr.res.val = "a: b"


\* the error a fatal value is latched as: typed for the two known codes,
\* carrying the detail after an unknown code, else the whole text
FatalErrOf(val) ==
  LET parts == SplitN2(val, ": ")
  IN  IF Len(parts) = 2 /\ parts[1] = errorCodeConnFailed THEN Err("ConnectionFailed", parts[2])
      ELSE IF Len(parts) = 2 /\ parts[1] = errorCodeHttpServe THEN Err("HttpServe", parts[2])
      ELSE IF Len(parts) = 2 /\ parts[1] # "" THEN Err("error", parts[2])
      ELSE Err("error", val)

\* C22: whatever the value of a fatal line (known code, unknown code,
\* free-form text without ": "), the step that reads it leaves the loop
\* running, latches the error of that text, drops the process handle by
\* killing the child and opens the request channels, so that later
\* requests are answered with the error.
C22_FatalLine ==
  [][(StatusLine /\ rd.key = "fatal") =>
       (/\ sv' = "loop"
        /\ c'.err = FatalErrOf(rd.val)
        /\ ~c'.proc
        /\ child' # "running"
        /\ c'.connCh /\ c'.objsCh)]_vars

\* C23: the step that reads an error line changes nothing of the
\* supervisor: the loop keeps running, and the latched error, the request
\* channels, the client, the registration timeout and the child are as
\* they were.
C23_ErrorLineFrame ==
  [][(StatusLine /\ rd.key = "error") =>
       (sv' = "loop" /\ c' = c /\ child' = child)]_vars


\* C27: an Objects request the loop takes on a serving plugin (handshake
\* done, no fatal error) is answered and the loop keeps running, whatever
\* objects line the child sent before ready, or none.
C27_ObjectsAnswered ==
  [][\A i \in Callers :
       (ServeObjects(i) /\ served /\ ~isFatal(c)) =>
          (sv' = "loop" /\ call'[i] = "ret" /\ last'.op = "Objects")]_vars


\* the step handles a well-formed ready line whose dial and header write
\* succeed
ReadyHandled ==
  \E l \in Lines :
     /\ parsedLine(l).key = "ready"
     /\ ValidReady(parsedLine(l).val)
     /\ Line(l, "ok")

\* a successful ready disarms the timeout and opens the request channels,
\* and after one RegistrationTimeout is not latched
DisarmedByReady ==
  /\ ReadyHandled => (~c'.timeoutCh /\ c'.connCh /\ c'.objsCh)
  /\ served => ~c'.timeoutCh
  /\ (served /\ c'.err = errRegistrationTimeout) => c.err = errRegistrationTimeout

\* C24 as stated: a successful ready disarms the registration timeout and
\* opens the request channels, RegistrationTimeout is never latched after
\* it, and before a successful ready both request channels are closed.
C24_ReadyGate ==
  [][/\ DisarmedByReady
     /\ ~served' => (~c'.connCh /\ ~c'.objsCh)]_vars

\* C24, amended: as stated, but before a successful ready the request
\* channels are closed only as long as no fatal error is latched (a latched
\* error, the registration timeout's included, opens them).
C24_ReadyGateUnlessFatal ==
  [][/\ DisarmedByReady
     /\ (~served' /\ ~isFatal(c')) => (~c'.connCh /\ ~c'.objsCh)]_vars

\* a ready line was handled successfully: the timeout is disarmed, the
\* channels are open and no error is latched
C24_Witness ==
  /\ served /\ nlines = 1
  /\ ~c.timeoutCh /\ c.connCh /\ c.objsCh
  /\ c.err = Nil /\ c.client.live


\* the envelope carries an error or a client, and not both
OneOfErrClient(e) == (e.err # Nil) # e.client.live

C21_WaitersClosedOnce ==
  \A s \in Stoppers :
     /\ stops[s].done <= 1
     /\ (stops[s].pc = "wait" /\ stops[s].done = 0) => c.over = s

=============================================================================
